---- MODULE Spec2Model ----
(***************************************************************************)
(* State-machine model of the HalfmoonCrossBridge NEAR contract            *)
(* (src/src/lib.rs): the operator ("owner") fixed by `new`, the            *)
(* LookupMap of one BridgeRequest per account, and the five contract       *)
(* methods.  A contract call runs to completion and a panic reverts every  *)
(* write of the call, so each method is one atomic action.                 *)
(*                                                                         *)
(* Account ids are sequences of one-character strings so that              *)
(* env::is_valid_account_id can be computed on them.  Option<T> is a       *)
(* sequence of length 0 (None) or 1 (Some).  A call's outcome is "ok" or   *)
(* the panic message of the code.                                          *)
(***************************************************************************)
EXTENDS Integers, Sequences, FiniteSets, TLC

VARIABLES
    initialized,    \* env::state_exists(): the contract struct is in storage
    owner,          \* HalfmoonCrossBridge.owner
    requests,       \* HalfmoonCrossBridge.requests: account id -> Option<BridgeRequest>
    call,           \* the last call: method, predecessor, arguments, outcome
                    \* (add_bridge_request: also the caller's slot before it)
    live            \* history: live[a] iff the last successful add_bridge_request
                    \* of a was not followed by a successful set_request_done/error

vars == <<initialized, owner, requests, call, live>>

----------------------------------------------------------------------------
(* Input domains *)

MaxDeposit == 12

op    == <<"o", "p">>
alice == <<"a", "l", "i", "c", "e">>

\* predecessor accounts and AccountId arguments: always valid ids
AccountIds == {op, alice}

\* raw owner_id inputs of `new`, valid and invalid
OwnerInputs == AccountIds \cup {<<"o">>, <<"O", "p">>, <<"o", "p", ".">>}

ToBlockchains == {"Algorand", "Ethereum"}
ToTokens      == {"goNEAR"}
ToAddresses   == {"ADDR1"}
TokenAddresses == {"wrap.near"}
Deposits      == {0, MaxDeposit}
Hashes        == {"HASH1", "HASH2"}
Errors        == {"network error", "timeout"}

----------------------------------------------------------------------------
(* Option<T> *)

None == <<>>
Some(x) == <<x>>
is_some(o) == Len(o) = 1
unwrap(o) == o[1]

OptionOf(S) == {None} \cup {Some(x) : x \in S}

----------------------------------------------------------------------------
(* RequestStatus and BridgeRequest *)

Created == [tag |-> "Created"]
Doing(h) == [tag |-> "Doing", to_txn_hash |-> h]
Error(h, e) == [tag |-> "Error", to_txn_hash |-> h, error |-> e]
Done(h) == [tag |-> "Done", to_txn_hash |-> h]

BridgeRequest(to_blockchain, to_token, to_address, from_token_address, from_amount_atom, status) ==
    [to_blockchain |-> to_blockchain, to_token |-> to_token,
     to_address |-> to_address, from_token_address |-> from_token_address,
     from_amount_atom |-> from_amount_atom, status |-> status]

----------------------------------------------------------------------------
(* Outcomes: "ok" or the panic message *)

Ok == "ok"
InvalidOwner == "Owner's account ID is invalid."
AlreadyInitialized == "Already initialized"
NotInitialized == "HalfmoonCrossBridge should be initialized before usage"
NotImplemented == "not implemented"
UnfinishedRequestExists == "unfinished request"
NotOwner == "only allowed by owner"
ExpectCreated == "expect request to be Created"
ExpectDoing == "expect request to be Doing"
RequestNotFound == "expect request exist"

----------------------------------------------------------------------------
(* env::is_valid_account_id: 2..64 bytes of [a-z0-9] with single           *)
(* separators [-_.] strictly inside                                        *)

AlphaNum == {"a", "b", "c", "d", "e", "f", "g", "h", "i", "j", "k", "l", "m",
             "n", "o", "p", "q", "r", "s", "t", "u", "v", "w", "x", "y", "z",
             "0", "1", "2", "3", "4", "5", "6", "7", "8", "9"}
Separators == {"-", "_", "."}

is_valid_account_id(id) ==
    /\ Len(id) >= 2
    /\ Len(id) <= 64
    /\ \A i \in 1..Len(id) : id[i] \in AlphaNum \cup Separators
    /\ id[1] \in AlphaNum
    /\ id[Len(id)] \in AlphaNum
    /\ \A i \in 1..(Len(id) - 1) : ~(id[i] \in Separators /\ id[i + 1] \in Separators)

----------------------------------------------------------------------------
(* u128::to_string: the decimal digits, most significant first *)

Digit == <<"0", "1", "2", "3", "4", "5", "6", "7", "8", "9">>

RECURSIVE to_string(_)
to_string(n) ==
    IF n < 10 THEN Digit[n + 1]
    ELSE to_string(n \div 10) \o Digit[(n % 10) + 1]

----------------------------------------------------------------------------
(* Method bodies: the outcome and the map after the call *)

\* Variant: the state_exists assert is missing
new_result_reinit(state_exists, owner_id) ==
    IF ~is_valid_account_id(owner_id) THEN InvalidOwner
    ELSE Ok

\* Variant: the two asserts in the opposite order
new_result_swapped(state_exists, owner_id) ==
    IF state_exists THEN AlreadyInitialized
    ELSE IF ~is_valid_account_id(owner_id) THEN InvalidOwner
    ELSE Ok

\* `new`: the two asserts, in source order
new_result(state_exists, owner_id) ==
    IF ~is_valid_account_id(owner_id) THEN InvalidOwner
    ELSE IF state_exists THEN AlreadyInitialized
    ELSE Ok

\* LookupMap::get
get(map, account_id) == map[account_id]

\* LookupMap::insert
insert(map, account_id, request) == [map EXCEPT ![account_id] = Some(request)]

\* Variant: only a Created record blocks, a Doing record is overwritten
add_bridge_request_body_doing_open(map, account_id, to_blockchain, to_token, to_address, from_token_address, attached_deposit) ==
    IF is_some(from_token_address)
    THEN [result |-> NotImplemented, requests |-> map]
    ELSE LET request == BridgeRequest(to_blockchain, to_token, to_address,
                                      from_token_address,
                                      to_string(attached_deposit), Created)
             existing == get(map, account_id)
         IN  IF is_some(existing)
                 /\ unwrap(existing).status.tag \notin {"Error", "Done", "Doing"}
             THEN [result |-> UnfinishedRequestExists, requests |-> map]
             ELSE [result |-> Ok, requests |-> insert(map, account_id, request)]

\* Variant: the token-funded branch does not abort
add_bridge_request_body_token_ok(map, account_id, to_blockchain, to_token, to_address, from_token_address, attached_deposit) ==
    LET request == BridgeRequest(to_blockchain, to_token, to_address,
                                 from_token_address,
                                 IF is_some(from_token_address) THEN ""
                                 ELSE to_string(attached_deposit), Created)
        existing == get(map, account_id)
    IN  IF is_some(existing)
            /\ unwrap(existing).status.tag \notin {"Error", "Done"}
        THEN [result |-> UnfinishedRequestExists, requests |-> map]
        ELSE [result |-> Ok, requests |-> insert(map, account_id, request)]

\* Variant: from_amount_atom keeps its initial "" (the deposit is not stored)
add_bridge_request_body_no_amount(map, account_id, to_blockchain, to_token, to_address, from_token_address, attached_deposit) ==
    IF is_some(from_token_address)
    THEN [result |-> NotImplemented, requests |-> map]
    ELSE LET request == BridgeRequest(to_blockchain, to_token, to_address,
                                      from_token_address, "", Created)
             existing == get(map, account_id)
         IN  IF is_some(existing)
                 /\ unwrap(existing).status.tag \notin {"Error", "Done"}
             THEN [result |-> UnfinishedRequestExists, requests |-> map]
             ELSE [result |-> Ok, requests |-> insert(map, account_id, request)]

\* Variant: an unfinished request of any account blocks the caller
add_bridge_request_body_global_gate(map, account_id, to_blockchain, to_token, to_address, from_token_address, attached_deposit) ==
    IF is_some(from_token_address)
    THEN [result |-> NotImplemented, requests |-> map]
    ELSE LET request == BridgeRequest(to_blockchain, to_token, to_address,
                                      from_token_address,
                                      to_string(attached_deposit), Created)
         IN  IF \E a \in DOMAIN map :
                    /\ is_some(get(map, a))
                    /\ unwrap(get(map, a)).status.tag \notin {"Error", "Done"}
             THEN [result |-> UnfinishedRequestExists, requests |-> map]
             ELSE [result |-> Ok, requests |-> insert(map, account_id, request)]

add_bridge_request_body(map, account_id, to_blockchain, to_token, to_address, from_token_address, attached_deposit) ==
    IF is_some(from_token_address)
    THEN [result |-> NotImplemented, requests |-> map]
    ELSE LET request == BridgeRequest(to_blockchain, to_token, to_address,
                                      from_token_address,
                                      to_string(attached_deposit), Created)
             existing == get(map, account_id)
         IN  IF is_some(existing)
                 /\ unwrap(existing).status.tag \notin {"Error", "Done"}
             THEN [result |-> UnfinishedRequestExists, requests |-> map]
             ELSE [result |-> Ok, requests |-> insert(map, account_id, request)]

\* Variant: a missing record falls into the wildcard arm
set_request_doing_body_no_lookup(own, map, predecessor, account_id, to_txn_hash) ==
    IF predecessor # own
    THEN [result |-> NotOwner, requests |-> map]
    ELSE LET existing == get(map, account_id)
         IN  IF is_some(existing) /\ unwrap(existing).status.tag = "Created"
             THEN [result |-> Ok,
                   requests |-> insert(map, account_id,
                       [unwrap(existing) EXCEPT !.status = Doing(to_txn_hash)])]
             ELSE [result |-> ExpectCreated, requests |-> map]

\* Variant: a Doing record is accepted too and gets the new hash
set_request_doing_body_rehash(own, map, predecessor, account_id, to_txn_hash) ==
    IF predecessor # own
    THEN [result |-> NotOwner, requests |-> map]
    ELSE LET existing == get(map, account_id)
         IN  IF is_some(existing)
             THEN IF unwrap(existing).status.tag \in {"Created", "Doing"}
                  THEN [result |-> Ok,
                        requests |-> insert(map, account_id,
                            [unwrap(existing) EXCEPT !.status = Doing(to_txn_hash)])]
                  ELSE [result |-> ExpectCreated, requests |-> map]
             ELSE [result |-> RequestNotFound, requests |-> map]

\* Variant: the requester may advance its own request
set_request_doing_body_requester_ok(own, map, predecessor, account_id, to_txn_hash) ==
    IF predecessor # own /\ predecessor # account_id
    THEN [result |-> NotOwner, requests |-> map]
    ELSE LET existing == get(map, account_id)
         IN  IF is_some(existing)
             THEN IF unwrap(existing).status.tag = "Created"
                  THEN [result |-> Ok,
                        requests |-> insert(map, account_id,
                            [unwrap(existing) EXCEPT !.status = Doing(to_txn_hash)])]
                  ELSE [result |-> ExpectCreated, requests |-> map]
             ELSE [result |-> RequestNotFound, requests |-> map]

\* Variant: the record written back is rebuilt and loses its amount
set_request_doing_body_rebuilt(own, map, predecessor, account_id, to_txn_hash) ==
    IF predecessor # own
    THEN [result |-> NotOwner, requests |-> map]
    ELSE LET existing == get(map, account_id)
         IN  IF is_some(existing)
             THEN IF unwrap(existing).status.tag = "Created"
                  THEN [result |-> Ok,
                        requests |-> insert(map, account_id,
                            [unwrap(existing) EXCEPT !.status = Doing(to_txn_hash),
                                                     !.from_amount_atom = ""])]
                  ELSE [result |-> ExpectCreated, requests |-> map]
             ELSE [result |-> RequestNotFound, requests |-> map]

\* Variant: the predecessor is compared with the requester, not the owner
set_request_doing_body_requester_only(own, map, predecessor, account_id, to_txn_hash) ==
    IF predecessor # account_id
    THEN [result |-> NotOwner, requests |-> map]
    ELSE LET existing == get(map, account_id)
         IN  IF is_some(existing)
             THEN IF unwrap(existing).status.tag = "Created"
                  THEN [result |-> Ok,
                        requests |-> insert(map, account_id,
                            [unwrap(existing) EXCEPT !.status = Doing(to_txn_hash)])]
                  ELSE [result |-> ExpectCreated, requests |-> map]
             ELSE [result |-> RequestNotFound, requests |-> map]

set_request_doing_body(own, map, predecessor, account_id, to_txn_hash) ==
    IF predecessor # own
    THEN [result |-> NotOwner, requests |-> map]
    ELSE LET existing == get(map, account_id)
         IN  IF is_some(existing)
             THEN IF unwrap(existing).status.tag = "Created"
                  THEN [result |-> Ok,
                        requests |-> insert(map, account_id,
                            [unwrap(existing) EXCEPT !.status = Doing(to_txn_hash)])]
                  ELSE [result |-> ExpectCreated, requests |-> map]
             ELSE [result |-> RequestNotFound, requests |-> map]

\* Variant: every status that carries a hash is accepted
set_request_done_body_wildcard(own, map, predecessor, account_id) ==
    IF predecessor # own
    THEN [result |-> NotOwner, requests |-> map]
    ELSE LET existing == get(map, account_id)
         IN  IF is_some(existing)
             THEN IF unwrap(existing).status.tag # "Created"
                  THEN [result |-> Ok,
                        requests |-> insert(map, account_id,
                            [unwrap(existing) EXCEPT
                                !.status = Done(unwrap(existing).status.to_txn_hash)])]
                  ELSE [result |-> ExpectDoing, requests |-> map]
             ELSE [result |-> RequestNotFound, requests |-> map]

\* Variant: the updated record is not written back
set_request_done_body_no_insert(own, map, predecessor, account_id) ==
    IF predecessor # own
    THEN [result |-> NotOwner, requests |-> map]
    ELSE LET existing == get(map, account_id)
         IN  IF is_some(existing)
             THEN IF unwrap(existing).status.tag = "Doing"
                  THEN [result |-> Ok, requests |-> map]
                  ELSE [result |-> ExpectDoing, requests |-> map]
             ELSE [result |-> RequestNotFound, requests |-> map]

\* Variant: the record is looked up before the owner check
set_request_done_body_lookup_first(own, map, predecessor, account_id) ==
    LET existing == get(map, account_id)
    IN  IF ~is_some(existing)
        THEN [result |-> RequestNotFound, requests |-> map]
        ELSE IF predecessor # own
        THEN [result |-> NotOwner, requests |-> map]
        ELSE IF unwrap(existing).status.tag = "Doing"
        THEN [result |-> Ok,
              requests |-> insert(map, account_id,
                  [unwrap(existing) EXCEPT
                      !.status = Done(unwrap(existing).status.to_txn_hash)])]
        ELSE [result |-> ExpectDoing, requests |-> map]

set_request_done_body(own, map, predecessor, account_id) ==
    IF predecessor # own
    THEN [result |-> NotOwner, requests |-> map]
    ELSE LET existing == get(map, account_id)
         IN  IF is_some(existing)
             THEN IF unwrap(existing).status.tag = "Doing"
                  THEN [result |-> Ok,
                        requests |-> insert(map, account_id,
                            [unwrap(existing) EXCEPT
                                !.status = Done(unwrap(existing).status.to_txn_hash)])]
                  ELSE [result |-> ExpectDoing, requests |-> map]
             ELSE [result |-> RequestNotFound, requests |-> map]

\* Variant: the owner check is missing
set_request_error_body_no_auth(own, map, predecessor, account_id, error) ==
    LET existing == get(map, account_id)
    IN  IF is_some(existing)
        THEN IF unwrap(existing).status.tag = "Doing"
             THEN [result |-> Ok,
                   requests |-> insert(map, account_id,
                       [unwrap(existing) EXCEPT
                           !.status = Error(unwrap(existing).status.to_txn_hash,
                                            error)])]
             ELSE [result |-> ExpectDoing, requests |-> map]
        ELSE [result |-> RequestNotFound, requests |-> map]

\* Variant: the hash of the Doing status is not moved into the Error status
set_request_error_body_drop_hash(own, map, predecessor, account_id, error) ==
    IF predecessor # own
    THEN [result |-> NotOwner, requests |-> map]
    ELSE LET existing == get(map, account_id)
         IN  IF is_some(existing)
             THEN IF unwrap(existing).status.tag = "Doing"
                  THEN [result |-> Ok,
                        requests |-> insert(map, account_id,
                            [unwrap(existing) EXCEPT !.status = Error("", error)])]
                  ELSE [result |-> ExpectDoing, requests |-> map]
             ELSE [result |-> RequestNotFound, requests |-> map]

\* Variant: a failed request is removed from the map
set_request_error_body_remove(own, map, predecessor, account_id, error) ==
    IF predecessor # own
    THEN [result |-> NotOwner, requests |-> map]
    ELSE LET existing == get(map, account_id)
         IN  IF is_some(existing)
             THEN IF unwrap(existing).status.tag = "Doing"
                  THEN [result |-> Ok,
                        requests |-> [map EXCEPT ![account_id] = None]]
                  ELSE [result |-> ExpectDoing, requests |-> map]
             ELSE [result |-> RequestNotFound, requests |-> map]

set_request_error_body(own, map, predecessor, account_id, error) ==
    IF predecessor # own
    THEN [result |-> NotOwner, requests |-> map]
    ELSE LET existing == get(map, account_id)
         IN  IF is_some(existing)
             THEN IF unwrap(existing).status.tag = "Doing"
                  THEN [result |-> Ok,
                        requests |-> insert(map, account_id,
                            [unwrap(existing) EXCEPT
                                !.status = Error(unwrap(existing).status.to_txn_hash,
                                                 error)])]
                  ELSE [result |-> ExpectDoing, requests |-> map]
             ELSE [result |-> RequestNotFound, requests |-> map]

----------------------------------------------------------------------------
(* The contract *)

Init ==
    /\ initialized = FALSE
    /\ owner = None
    /\ requests = [a \in AccountIds |-> None]
    /\ call = [method |-> "deploy", result |-> Ok]
    /\ live = [a \in AccountIds |-> FALSE]

\* impl Default: without stored state no method runs, the call panics
default ==
    /\ ~initialized
    /\ call' = [method |-> "default", result |-> NotInitialized]
    /\ UNCHANGED <<initialized, owner, requests, live>>

new ==
    \E owner_id \in OwnerInputs :
        LET result == new_result(initialized, owner_id) IN
        /\ call' = [method |-> "new", owner_id |-> owner_id, result |-> result]
        /\ IF result = Ok
           THEN /\ initialized' = TRUE
                /\ owner' = owner_id
                /\ requests' = [a \in AccountIds |-> None]
           ELSE UNCHANGED <<initialized, owner, requests>>
        /\ UNCHANGED live

add_bridge_request ==
    /\ initialized
    /\ \E predecessor \in AccountIds, to_blockchain \in ToBlockchains,
          to_token \in ToTokens, to_address \in ToAddresses,
          from_token_address \in OptionOf(TokenAddresses),
          attached_deposit \in Deposits :
        LET r == add_bridge_request_body(requests, predecessor, to_blockchain,
                     to_token, to_address, from_token_address, attached_deposit)
        IN  /\ requests' = r.requests
            /\ call' = [method |-> "add_bridge_request",
                        predecessor |-> predecessor,
                        to_blockchain |-> to_blockchain, to_token |-> to_token,
                        to_address |-> to_address,
                        from_token_address |-> from_token_address,
                        attached_deposit |-> attached_deposit,
                        before |-> get(requests, predecessor),
                        result |-> r.result]
            /\ live' = IF r.result = Ok
                       THEN [live EXCEPT ![predecessor] = TRUE] ELSE live
    /\ UNCHANGED <<initialized, owner>>

set_request_doing ==
    /\ initialized
    /\ \E predecessor \in AccountIds, account_id \in AccountIds,
          to_txn_hash \in Hashes :
        LET r == set_request_doing_body(owner, requests, predecessor,
                                        account_id, to_txn_hash)
        IN  /\ requests' = r.requests
            /\ call' = [method |-> "set_request_doing",
                        predecessor |-> predecessor, account_id |-> account_id,
                        to_txn_hash |-> to_txn_hash, result |-> r.result]
    /\ UNCHANGED <<initialized, owner, live>>

set_request_done ==
    /\ initialized
    /\ \E predecessor \in AccountIds, account_id \in AccountIds :
        LET r == set_request_done_body(owner, requests, predecessor, account_id)
        IN  /\ requests' = r.requests
            /\ call' = [method |-> "set_request_done",
                        predecessor |-> predecessor, account_id |-> account_id,
                        result |-> r.result]
            /\ live' = IF r.result = Ok
                       THEN [live EXCEPT ![account_id] = FALSE] ELSE live
    /\ UNCHANGED <<initialized, owner>>

set_request_error ==
    /\ initialized
    /\ \E predecessor \in AccountIds, account_id \in AccountIds,
          error \in Errors :
        LET r == set_request_error_body(owner, requests, predecessor,
                                        account_id, error)
        IN  /\ requests' = r.requests
            /\ call' = [method |-> "set_request_error",
                        predecessor |-> predecessor, account_id |-> account_id,
                        error |-> error, result |-> r.result]
            /\ live' = IF r.result = Ok
                       THEN [live EXCEPT ![account_id] = FALSE] ELSE live
    /\ UNCHANGED <<initialized, owner>>

\* Variant: the read is restricted to the owner
get_request_status_owner_only ==
    /\ initialized
    /\ \E predecessor \in AccountIds, account_id \in AccountIds :
        call' = [method |-> "get_request_status",
                 predecessor |-> predecessor, account_id |-> account_id,
                 result |-> IF predecessor = owner THEN Ok ELSE NotOwner,
                 returned |-> IF predecessor = owner
                              THEN get(requests, account_id) ELSE None]
    /\ UNCHANGED <<initialized, owner, requests, live>>

get_request_status ==
    /\ initialized
    /\ \E predecessor \in AccountIds, account_id \in AccountIds :
        call' = [method |-> "get_request_status",
                 predecessor |-> predecessor, account_id |-> account_id,
                 result |-> Ok, returned |-> get(requests, account_id)]
    /\ UNCHANGED <<initialized, owner, requests, live>>

Next ==
    \/ default
    \/ new
    \/ add_bridge_request
    \/ set_request_doing
    \/ set_request_done
    \/ set_request_error
    \/ get_request_status

Spec == Init /\ [][Next]_vars

\* a successful transition of the request of account a, called by the owner
owner_advances(a) ==
    /\ set_request_doing \/ set_request_done \/ set_request_error
    /\ call'.predecessor = owner
    /\ call'.account_id = a
    /\ call'.result = Ok

\* The contract with one request payload: the destination and the deposit of
\* a request are stored and never read by any guard, so for the progress of
\* the statuses all add_bridge_request calls carry the same ones.  Callers,
\* targets, hashes, error messages and from_token_address stay unrestricted.
add_bridge_request_one_payload ==
    /\ add_bridge_request
    /\ call'.to_blockchain = "Algorand"
    /\ call'.attached_deposit = 0

OnePayloadNext ==
    \/ default
    \/ new
    \/ add_bridge_request_one_payload
    \/ set_request_doing
    \/ set_request_done
    \/ set_request_error
    \/ get_request_status

\* the owner (the bridge operator) keeps serving: a transition of a request
\* that stays possible is eventually called
FairSpec ==
    /\ Init
    /\ [][OnePayloadNext]_vars
    /\ \A a \in AccountIds : WF_vars(owner_advances(a))

----------------------------------------------------------------------------
(* Vocabulary of the properties *)

TransitionMethods == {"set_request_doing", "set_request_done", "set_request_error"}

\* the (status, transition) pairs of the lifecycle
AllowedTransitions == {<<"Created", "set_request_doing">>,
                       <<"Doing", "set_request_done">>,
                       <<"Doing", "set_request_error">>}

\* the InvalidTransition message of each method
InvalidTransition(method) ==
    IF method = "set_request_doing" THEN ExpectCreated ELSE ExpectDoing

\* status tag of the record of account a in map m ("none" without record)
StatusTag(m, a) == IF is_some(m[a]) THEN unwrap(m[a]).status.tag ELSE "none"

\* decimal strings, written out independently of to_string
DecimalString == <<"0", "1", "2", "3", "4", "5", "6", "7", "8", "9", "10", "11",
                   "12", "13", "14", "15", "16", "17", "18", "19", "20">>

----------------------------------------------------------------------------
\* C1 - Transition totality: a transition T invoked by the owner on an
\* existing record of status S succeeds iff (S, T) is (Created, doing),
\* (Doing, done) or (Doing, error); every other pair fails with the
\* InvalidTransition message and leaves the stored record unchanged.
C1_TransitionTotality ==
    [][ ( /\ call'.method \in TransitionMethods
          /\ call'.predecessor = owner
          /\ is_some(requests[call'.account_id]) )
        => IF <<StatusTag(requests, call'.account_id), call'.method>>
                  \in AllowedTransitions
           THEN call'.result = Ok
           ELSE /\ call'.result = InvalidTransition(call'.method)
                /\ requests'[call'.account_id] = requests[call'.account_id]
      ]_vars

\* the owner tried set_request_doing on a Done record and was refused
C1_Witness ==
    /\ call.method = "set_request_doing"
    /\ call.predecessor = owner
    /\ call.result = ExpectCreated
    /\ StatusTag(requests, call.account_id) = "Done"

\* C2 - Authorization: a transition invoked by anybody but the owner fails
\* with NotOwner and the whole map is as before.
C2_Authorization ==
    [][ ( /\ call'.method \in TransitionMethods
          /\ call'.predecessor # owner )
        => /\ call'.result = NotOwner
           /\ requests' = requests
      ]_vars

\* a non-owner tried set_request_error on a Doing record
C2_Witness ==
    /\ call.method = "set_request_error"
    /\ call.predecessor # owner
    /\ call.result = NotOwner
    /\ StatusTag(requests, call.account_id) = "Doing"

\* C3 (as stated) - Creation gate for every add_bridge_request call, whatever
\* its arguments: it fails with UnfinishedRequestExists iff the caller has a
\* Created or Doing record (which then stays unchanged), and succeeds storing
\* a Created record otherwise.
C3_CreationGate_AnyArguments ==
    [][ call'.method = "add_bridge_request"
        => LET blocked == StatusTag(requests, call'.predecessor)
                              \in {"Created", "Doing"}
           IN  /\ (call'.result = UnfinishedRequestExists) <=> blocked
               /\ blocked => requests'[call'.predecessor] = requests[call'.predecessor]
               /\ ~blocked => /\ call'.result = Ok
                              /\ StatusTag(requests', call'.predecessor) = "Created"
      ]_vars

\* C3 (amended) - Creation gate for the add_bridge_request calls without
\* from_token_address: failure with UnfinishedRequestExists iff the caller
\* has a Created or Doing record (which stays unchanged); success, storing a
\* Created record, when the caller has no record or a Done or Error one.
C3_CreationGate ==
    [][ ( /\ call'.method = "add_bridge_request"
          /\ ~is_some(call'.from_token_address) )
        => LET blocked == StatusTag(requests, call'.predecessor)
                              \in {"Created", "Doing"}
           IN  /\ (call'.result = UnfinishedRequestExists) <=> blocked
               /\ blocked => requests'[call'.predecessor] = requests[call'.predecessor]
               /\ ~blocked => /\ call'.result = Ok
                              /\ StatusTag(requests', call'.predecessor) = "Created"
      ]_vars

\* a caller whose record is Doing was refused a new request
C3_Witness ==
    /\ call.method = "add_bridge_request"
    /\ ~is_some(call.from_token_address)
    /\ call.result = UnfinishedRequestExists
    /\ StatusTag(requests, call.predecessor) = "Doing"

\* C4 - Single live request: every account has at most one record, and the
\* record is Created or Doing only if the account's last successful
\* add_bridge_request was not followed by a successful set_request_done or
\* set_request_error.
C4_SingleLiveRequest ==
    \A a \in AccountIds :
        /\ Len(requests[a]) <= 1
        /\ StatusTag(requests, a) \in {"Created", "Doing"} => live[a]

\* a request was finished while the other account's request is still open
C4_Witness ==
    /\ call.method \in {"set_request_done", "set_request_error"}
    /\ call.result = Ok
    /\ ~live[call.account_id]
    /\ \E a \in AccountIds : a # call.account_id /\ live[a]

\* C5 - Fixed operator: a successful `new` stores its argument as owner, and
\* from then on no step changes the owner (or removes the state).
C5_FixedOperator ==
    [][ /\ (call'.method = "new" /\ call'.result = Ok)
            => (initialized' /\ owner' = call'.owner_id)
        /\ initialized => (initialized' /\ owner' = owner)
      ]_vars

\* a later `new` with another valid id was refused
C5_Witness ==
    /\ initialized
    /\ call.method = "new"
    /\ is_valid_account_id(call.owner_id)
    /\ call.owner_id # owner
    /\ call.result = AlreadyInitialized

\* C6 (as stated) - Construct errors: InvalidOwner for an invalid id,
\* AlreadyInitialized whenever state exists (valid id or not); a failure
\* changes nothing and success needs no state and a valid id.
C6_ConstructErrors_AnyArgument ==
    [][ call'.method = "new"
        => /\ ~is_valid_account_id(call'.owner_id) => call'.result = InvalidOwner
           /\ initialized => call'.result = AlreadyInitialized
           /\ call'.result # Ok => (owner' = owner /\ requests' = requests)
           /\ call'.result = Ok
                  => (~initialized /\ is_valid_account_id(call'.owner_id))
      ]_vars

\* C6 (amended) - Construct errors: InvalidOwner for an invalid id, whether
\* or not state exists; AlreadyInitialized when state exists and the id is
\* valid; a failure changes nothing and success needs no state and a valid id.
C6_ConstructErrors ==
    [][ call'.method = "new"
        => /\ ~is_valid_account_id(call'.owner_id) => call'.result = InvalidOwner
           /\ (initialized /\ is_valid_account_id(call'.owner_id))
                  => call'.result = AlreadyInitialized
           /\ call'.result # Ok
                  => (initialized' = initialized /\ owner' = owner
                      /\ requests' = requests)
           /\ call'.result = Ok
                  => (~initialized /\ is_valid_account_id(call'.owner_id))
      ]_vars

\* `new` with an invalid id on an initialized contract: InvalidOwner
C6_Witness ==
    /\ initialized
    /\ call.method = "new"
    /\ call.owner_id = <<"o", "p", ".">>
    /\ call.result = InvalidOwner

\* C7 - Request not found: a transition invoked by the owner for an account
\* without record fails with RequestNotFound, creates no record and leaves
\* every other record unchanged.
C7_RequestNotFound ==
    [][ ( /\ call'.method \in TransitionMethods
          /\ call'.predecessor = owner
          /\ ~is_some(requests[call'.account_id]) )
        => /\ call'.result = RequestNotFound
           /\ ~is_some(requests'[call'.account_id])
           /\ requests' = requests
      ]_vars

\* the owner targeted an account without record while another has one
C7_Witness ==
    /\ call.method = "set_request_doing"
    /\ call.predecessor = owner
    /\ call.result = RequestNotFound
    /\ ~is_some(requests[call.account_id])
    /\ \E a \in AccountIds : is_some(requests[a])

\* C8 - Token-funded path: an add_bridge_request call with from_token_address
\* fails with NotImplemented and writes nothing, whatever record the caller
\* has.
C8_TokenFundedPath ==
    [][ ( /\ call'.method = "add_bridge_request"
          /\ is_some(call'.from_token_address) )
        => /\ call'.result = NotImplemented
           /\ requests' = requests
      ]_vars

\* a token-funded call by a caller whose record is Done
C8_Witness ==
    /\ call.method = "add_bridge_request"
    /\ is_some(call.from_token_address)
    /\ call.result = NotImplemented
    /\ StatusTag(requests, call.predecessor) = "Done"

\* C9 - Hash carry-over: a successful set_request_done turns Doing{h} into
\* Done{h}, a successful set_request_error with message m turns Doing{h}
\* into Error{h, m}, with the h stored before the call.
C9_HashCarryOver ==
    [][ ( /\ call'.method \in {"set_request_done", "set_request_error"}
          /\ call'.result = Ok
          /\ StatusTag(requests, call'.account_id) = "Doing" )
        => LET h == unwrap(requests[call'.account_id]).status.to_txn_hash
               after == unwrap(requests'[call'.account_id]).status
           IN  IF call'.method = "set_request_done"
               THEN after = [tag |-> "Done", to_txn_hash |-> h]
               ELSE after = [tag |-> "Error", to_txn_hash |-> h,
                             error |-> call'.error]
      ]_vars

\* set_request_error succeeded on a request that was Doing{HASH2}
C9_Witness ==
    /\ call.method = "set_request_error"
    /\ call.result = Ok
    /\ call.error = "timeout"
    /\ unwrap(requests[call.account_id]).status
           = [tag |-> "Error", to_txn_hash |-> "HASH2", error |-> "timeout"]

\* C10 - Creation result: a successful add_bridge_request without
\* from_token_address and with deposit v stores under the caller a record
\* with the supplied to_blockchain, to_token and to_address, no
\* from_token_address, the decimal string of v as from_amount_atom and
\* status Created, and get_request_status of the caller returns that record.
C10_CreationResult ==
    [][ ( /\ call'.method = "add_bridge_request"
          /\ call'.result = Ok
          /\ ~is_some(call'.from_token_address) )
        => get(requests', call'.predecessor)
               = << [to_blockchain |-> call'.to_blockchain,
                     to_token |-> call'.to_token,
                     to_address |-> call'.to_address,
                     from_token_address |-> <<>>,
                     from_amount_atom |-> DecimalString[call'.attached_deposit + 1],
                     status |-> [tag |-> "Created"]] >>
      ]_vars

\* a request with a two-digit deposit was stored
C10_Witness ==
    /\ call.method = "add_bridge_request"
    /\ call.result = Ok
    /\ call.attached_deposit >= 10
    /\ is_some(requests[call.predecessor])
    /\ unwrap(requests[call.predecessor]).from_amount_atom
           = DecimalString[call.attached_deposit + 1]

\* C11 - Creation acts on the caller's own behalf: add_bridge_request by
\* caller C leaves the slot of every other account as it was, and its outcome
\* does not depend on the other slots: without from_token_address it succeeds
\* whenever C itself has no record or a Done or Error one, whatever the
\* other accounts hold.
C11_OwnSlotOnly ==
    [][ call'.method = "add_bridge_request"
        => /\ \A a \in AccountIds \ {call'.predecessor} :
                  requests'[a] = requests[a]
           /\ ( /\ ~is_some(call'.from_token_address)
                /\ StatusTag(requests, call'.predecessor)
                       \in {"none", "Done", "Error"} )
              => /\ call'.result = Ok
                 /\ is_some(requests'[call'.predecessor])
      ]_vars

\* a caller without record created a request while another account's request
\* was Doing
C11_Witness ==
    /\ call.method = "add_bridge_request"
    /\ call.result = Ok
    /\ call.before = <<>>
    /\ \E a \in AccountIds \ {call.predecessor} : StatusTag(requests, a) = "Doing"

\* C12 - Query is a pure read: get_request_status by any caller returns the
\* slot of the asked account (the record, or nothing), never fails, and
\* leaves state, owner and map unchanged.
C12_QueryPureRead ==
    [][ call'.method = "get_request_status"
        => /\ call'.result = Ok
           /\ call'.returned = requests[call'.account_id]
           /\ initialized' = initialized
           /\ owner' = owner
           /\ requests' = requests
      ]_vars

\* a non-owner read the record of another account
C12_Witness ==
    /\ call.method = "get_request_status"
    /\ call.predecessor # owner
    /\ call.account_id # call.predecessor
    /\ is_some(call.returned)
    /\ call.returned = requests[call.account_id]

\* the edges of the lifecycle of one slot
LifecycleEdges == {<<"none", "Created">>, <<"Created", "Doing">>,
                   <<"Doing", "Done">>, <<"Doing", "Error">>,
                   <<"Done", "Created">>, <<"Error", "Created">>}

\* C13 - Lifecycle ordering: in every step a slot either stays as it is or
\* moves along none -> Created, Created -> Doing, Doing -> Done,
\* Doing -> Error, Done -> Created or Error -> Created; a Done or Error
\* record changes only through a successful add_bridge_request of its own
\* account.
C13_LifecycleOrdering ==
    [][ \A a \in AccountIds :
          requests'[a] # requests[a]
          => /\ <<StatusTag(requests, a), StatusTag(requests', a)>>
                    \in LifecycleEdges
             /\ StatusTag(requests, a) \in {"Done", "Error"}
                => /\ call'.method = "add_bridge_request"
                   /\ call'.predecessor = a
                   /\ call'.result = Ok
      ]_vars

\* an Error record was superseded by a new request of the same account
C13_Witness ==
    /\ call.method = "add_bridge_request"
    /\ call.result = Ok
    /\ StatusTag(requests, call.predecessor) = "Created"
    /\ is_some(call.before)
    /\ unwrap(call.before).status.tag = "Error"

\* one slot value per shape of RequestStatus, and the empty slot
SlotVariants ==
    {None} \cup
    { Some(BridgeRequest("Algorand", "goNEAR", "ADDR1", None, "0", st)) :
        st \in {Created} \cup {Doing(h) : h \in Hashes}
                 \cup {Done(h) : h \in Hashes}
                 \cup {Error(h, e) : h \in Hashes, e \in Errors} }

\* C14 - No existence leak: for a caller that is not the owner, each of the
\* three transitions has the same outcome, NotOwner, in the current state and
\* in every state that differs from it only in the slot of the targeted
\* account (no record, or a record of any status).
C14_NoExistenceLeak ==
    initialized =>
      \A p \in AccountIds \ {owner}, a \in AccountIds, slot \in SlotVariants :
        LET other == [requests EXCEPT ![a] = slot] IN
        /\ \A h \in Hashes :
             /\ set_request_doing_body(owner, other, p, a, h).result
                    = set_request_doing_body(owner, requests, p, a, h).result
             /\ set_request_doing_body(owner, requests, p, a, h).result = NotOwner
        /\ set_request_done_body(owner, other, p, a).result
               = set_request_done_body(owner, requests, p, a).result
        /\ set_request_done_body(owner, requests, p, a).result = NotOwner
        /\ \A e \in Errors :
             /\ set_request_error_body(owner, other, p, a, e).result
                    = set_request_error_body(owner, requests, p, a, e).result
             /\ set_request_error_body(owner, requests, p, a, e).result = NotOwner

\* a non-owner targeted an account without record and got NotOwner, not
\* RequestNotFound
C14_Witness ==
    /\ call.method = "set_request_done"
    /\ call.predecessor # owner
    /\ ~is_some(requests[call.account_id])
    /\ call.result = NotOwner

\* the methods that read env::predecessor_account_id
MethodsWithPredecessor == TransitionMethods \cup
                          {"add_bridge_request", "get_request_status"}

\* the fields of a record other than its status
Content(slot) ==
    [f \in {"to_blockchain", "to_token", "to_address", "from_token_address",
            "from_amount_atom"} |-> unwrap(slot)[f]]

\* C15 - No self-service escape: a Created or Doing record of an account
\* other than the owner is identical after every step that is not a call of
\* the owner, whatever the requester and the other callers call.
C15_NoSelfServiceEscape ==
    [][ \A a \in AccountIds :
          ( /\ initialized
            /\ a # owner
            /\ StatusTag(requests, a) \in {"Created", "Doing"}
            /\ ~( /\ call'.method \in MethodsWithPredecessor
                  /\ call'.predecessor = owner ) )
          => requests'[a] = requests[a]
      ]_vars

\* a requester tried to finish its own Doing request and was refused
C15_Witness ==
    /\ call.method = "set_request_done"
    /\ call.predecessor = call.account_id
    /\ call.predecessor # owner
    /\ call.result = NotOwner
    /\ StatusTag(requests, call.account_id) = "Doing"

\* C16 - Records are never deleted: a slot that holds a record holds one
\* after every step, and the fields of the record other than the status
\* change only by a successful add_bridge_request of the same account over
\* a Done or Error record.
C16_NeverDeleted ==
    [][ \A a \in AccountIds :
          is_some(requests[a])
          => /\ is_some(requests'[a])
             /\ Content(requests'[a]) # Content(requests[a])
                => /\ call'.method = "add_bridge_request"
                   /\ call'.predecessor = a
                   /\ call'.result = Ok
                   /\ StatusTag(requests, a) \in {"Done", "Error"}
      ]_vars

\* a Done record was replaced by a request for another blockchain
C16_Witness ==
    /\ call.method = "add_bridge_request"
    /\ call.result = Ok
    /\ is_some(call.before)
    /\ unwrap(call.before).status.tag = "Done"
    /\ unwrap(call.before).to_blockchain # call.to_blockchain
    /\ unwrap(requests[call.predecessor]).to_blockchain = call.to_blockchain

\* C17 - Frame of a successful transition: a successful set_request_doing,
\* set_request_done or set_request_error for an account changes only the
\* status of that account's record; its other fields, every other slot and
\* the owner are as before.
C17_TransitionFrame ==
    [][ ( /\ call'.method \in TransitionMethods
          /\ call'.result = Ok )
        => /\ is_some(requests[call'.account_id])
           /\ is_some(requests'[call'.account_id])
           /\ Content(requests'[call'.account_id])
                  = Content(requests[call'.account_id])
           /\ \A a \in AccountIds \ {call'.account_id} :
                  requests'[a] = requests[a]
           /\ owner' = owner
      ]_vars

\* set_request_doing succeeded on a request with a two-digit amount while
\* the other account holds a record
C17_Witness ==
    /\ call.method = "set_request_doing"
    /\ call.result = Ok
    /\ unwrap(requests[call.account_id]).from_amount_atom = "12"
    /\ unwrap(requests[call.account_id]).to_blockchain = "Ethereum"
    /\ \E a \in AccountIds \ {call.account_id} : is_some(requests[a])

\* C18 - Stored records are never token-funded: every record of the map has
\* no from_token_address.
C18_NeverTokenFunded ==
    \A a \in AccountIds :
        is_some(requests[a]) => unwrap(requests[a]).from_token_address = None

\* a token-funded call by a caller without record was refused and the map,
\* which holds a record of another account, has no token-funded record
C18_Witness ==
    /\ call.method = "add_bridge_request"
    /\ is_some(call.from_token_address)
    /\ call.result = NotImplemented
    /\ ~is_some(requests[call.predecessor])
    /\ \E a \in AccountIds : is_some(requests[a])

\* C19 - Progress under operator fairness: in every reachable state the
\* owner's set_request_doing succeeds on every Created record and the
\* owner's set_request_done and set_request_error succeed on every Doing
\* record; with weak fairness of the owner's successful transitions every
\* Created request eventually is Done or Error.
C19_Progress ==
    /\ [](\A a \in AccountIds :
            /\ StatusTag(requests, a) = "Created"
               => \A h \in Hashes :
                    set_request_doing_body(owner, requests, owner, a, h).result = Ok
            /\ StatusTag(requests, a) = "Doing"
               => /\ set_request_done_body(owner, requests, owner, a).result = Ok
                  /\ \A e \in Errors :
                       set_request_error_body(owner, requests, owner, a, e).result = Ok)
    /\ \A a \in AccountIds :
         (StatusTag(requests, a) = "Created")
             ~> (StatusTag(requests, a) \in {"Done", "Error"})

\* the owner finished the request of another account
C19_Witness ==
    /\ call.method = "set_request_done"
    /\ call.predecessor = owner
    /\ call.account_id # owner
    /\ call.result = Ok
    /\ StatusTag(requests, call.account_id) = "Done"

====
